---- MODULE Spec2Model ----
(***************************************************************************)
(* LiteScope capture core (src/litescope/core.py).                         *)
(*                                                                         *)
(* Spec      : AnalyzerStorage, the IDLE/WAIT/RUN capture controller       *)
(*             around its buffered synchronous FIFO `mem`, one step per    *)
(*             sys tick.                                                   *)
(* SpecCfg, SpecTrig, SpecRearm : the same ticks, each recording one       *)
(*             history (parameters at start; trigger sample and samples    *)
(*             accepted before it; window size of the last capture).       *)
(* SpecLive  : the same ticks with an upstream that never runs out of      *)
(*             samples and a clock that never stops (weak fairness).       *)
(* SubSpec   : FrontendSubSampler, one step per sampling tick, with the    *)
(*             decimation count held constant.                             *)
(* SubCfgSpec: FrontendSubSampler with a host that rewrites the count; the *)
(*             count register reaches the sampling domain through its      *)
(*             MultiReg.                                                   *)
(* TriggerSpec: FrontendTrigger, one step per sampling tick or host write  *)
(*             of the value and mask registers.                            *)
(* PipeSpec  : AnalyzerFrontend, the pipeline buffer -> trigger ->         *)
(*             subsampler -> converter -> fifo with the count at 0 since   *)
(*             reset; sampling ticks and sys ticks interleave freely.      *)
(*                                                                         *)
(* Every signal that the code drives combinationally is an operator over   *)
(* the registers; the values presented to a module during a tick (stream   *)
(* endpoints, the CSR bus access) are variables, chosen anew at every tick *)
(* under the valid/ready stream protocol.                                  *)
(*                                                                         *)
(* mem is stream.SyncFIFO(..., buffered=True): a synchronous FIFO of       *)
(* `depth` words whose read port is registered, followed by an output      *)
(* register.  A written word reaches the output register one tick later;   *)
(* sink.ready is "storage not full"; level counts the storage plus the     *)
(* output register.                                                        *)
(*                                                                         *)
(* MultiReg(i, o, cd) is a chain of MultiRegDepth registers clocked by cd: *)
(* at every tick of cd the first stage takes i as it is at that tick and   *)
(* every other stage its predecessor; o is the last stage.                 *)
(* stream.Buffer is one pipeline register: it takes a sample when the      *)
(* register is free or is being emptied on the same tick.  The converter   *)
(* is the identity at cd_ratio = 1.  stream.AsyncFIFO keeps a write        *)
(* pointer in the write domain and a read pointer in the read domain,      *)
(* each seen by the other domain through a MultiReg.                       *)
(***************************************************************************)
EXTENDS Integers, Sequences, FiniteSets, TLC

\* ------------------------------------------------------------ bounds
\* depth of the capture memory (constructor argument `depth`, cd_ratio = 1)
Depth == 2
\* number of samples the upstream presents in one behaviour
MaxSamples == 5

\* ------------------------------------------------------------ helpers
RECURSIVE bits_for(_)
\* litex.gen bits_for(n): number of bits needed to hold n (at least 1)
bits_for(n) == IF n < 2 THEN 1 ELSE 1 + bits_for(n \div 2)

\* largest value of the length / offset CSRStorage (bits_for(depth) bits)
MaxParam == 2^bits_for(Depth) - 1


VARIABLES
    \* ---- AnalyzerStorage registers
    state,          \* fsm state: "IDLE", "WAIT", "RUN"
    length,         \* self.length.storage
    offset,         \* self.offset.storage
    mem_fifo,       \* mem: words held in the inner SyncFIFO storage, oldest first
    mem_readable,   \* mem: output register holds a word (mem.source.valid)
    mem_dout,       \* mem: output register contents (mem.source.data)
    \* ---- presented to the module during the current tick
    sink_valid,     \* self.sink.valid
    sink_data,      \* self.sink.data (samples are numbered 1, 2, ... as presented)
    sink_hit,       \* self.sink.hit
    host,           \* CSR bus access of this tick: [op, r]
    nseq,           \* number of samples presented so far
    \* ---- history variables (observers; the code never reads them)
    cap_length,     \* in WAIT and RUN: length register when the capture started
    cap_offset,     \* in WAIT and RUN: offset register when the capture started
    hit_data,       \* in RUN: data of the sample that caused WAIT->RUN (else 0)
    wait_acc,       \* in WAIT and RUN: non-hit samples accepted in WAIT (saturating)
    cfg_written,    \* host wrote length or offset since the last start pulse
    done_level,     \* fill level on arrival in IDLE of the last completed capture
                    \* (-1: none, or length/offset were written since)
    \* ---- FrontendSubSampler
    value_storage,  \* self.value.storage
    value_meta,     \* MultiReg(self.value.storage, value, cd): its first stage
    value,          \* the decimation count as synchronized into the sampling domain
                    \* (the last stage of the MultiReg)
    counter,        \* counter (16 bits)
    ss_valid,       \* self.sink.valid of this tick
    ss_data,        \* self.sink.data of this tick (samples numbered 1, 2, ...)
    ss_ready,       \* self.source.ready of this tick
    ss_nseq,        \* number of samples presented to the Sub-Sampler so far
    emitted,        \* history: data of the samples handed downstream, in order
    \* ---- FrontendTrigger
    tr_value,       \* self.value.storage
    tr_mask,        \* self.mask.storage
    tr_value_regs,  \* MultiReg(self.value.storage, value, cd): its stages, first to last
    tr_mask_regs,   \* MultiReg(self.mask.storage, mask, cd): its stages, first to last
    tr_valid,       \* self.sink.valid of this tick
    tr_data,        \* self.sink.data of this tick
    tr_hit,         \* self.sink.hit of this tick
    tr_ready,       \* self.source.ready of this tick
    tr_value_held,  \* history: self.value.storage at the previous sampling ticks,
                    \* most recent first
    tr_mask_held,   \* history: self.mask.storage at the previous sampling ticks,
                    \* most recent first
    \* ---- AnalyzerFrontend (the pipeline)
    fe_valid,       \* self.sink.valid of this sampling tick
    fe_data,        \* self.sink.data of this sampling tick (samples numbered 1, 2, ...)
    fe_nseq,        \* number of samples presented to the pipeline so far
    buf_valid,      \* buffer: its register holds a sample
    buf_data,       \* buffer: the sample in its register
    af_mem,         \* fifo: the words written and not yet read, oldest first
    af_produce,     \* fifo: write pointer (write domain)
    af_consume,     \* fifo: read pointer (read domain)
    af_consume_w,   \* fifo: read pointer as synchronized into the write domain (stages)
    af_produce_r,   \* fifo: write pointer as synchronized into the read domain (stages)
    fe_ready,       \* self.source.ready of this sys tick
    fe_accepted,    \* history: data of the samples accepted at self.sink, in order
    fe_delivered    \* history: data of the samples taken at self.source, in order

vars == << state, length, offset, mem_fifo, mem_readable, mem_dout,
           sink_valid, sink_data, sink_hit, host, nseq,
           cap_length, cap_offset, hit_data, wait_acc, cfg_written, done_level,
           value_storage, value_meta,
           value, counter, ss_valid, ss_data, ss_ready, ss_nseq, emitted,
           tr_value, tr_mask, tr_value_regs, tr_mask_regs,
           tr_valid, tr_data, tr_hit, tr_ready, tr_value_held, tr_mask_held,
           fe_valid, fe_data, fe_nseq, buf_valid, buf_data, af_mem, af_produce,
           af_consume, af_consume_w, af_produce_r, fe_ready, fe_accepted,
           fe_delivered >>

\* the Trigger Matcher's variables
trigvars == << tr_value, tr_mask, tr_value_regs, tr_mask_regs,
               tr_valid, tr_data, tr_hit, tr_ready, tr_value_held, tr_mask_held >>

\* the pipeline's variables (besides the Sub-Sampler's counter and count)
pipevars == << fe_valid, fe_data, fe_nseq, buf_valid, buf_data, af_mem, af_produce,
               af_consume, af_consume_w, af_produce_r, fe_ready, fe_accepted,
               fe_delivered >>

\* the Sub-Sampler's variables
subvars == << value_storage, value_meta,
              value, counter, ss_valid, ss_data, ss_ready, ss_nseq, emitted >>

\* the capture controller's variables
stovars == << state, length, offset, mem_fifo, mem_readable, mem_dout,
              sink_valid, sink_data, sink_hit, host, nseq,
              cap_length, cap_offset, hit_data, wait_acc, cfg_written, done_level >>

\* ------------------------------------------------------------ CSR bus
\* one CSR access per tick: none, a write to start, mem_ready, length or offset
HostOps ==
    { [op |-> "none", r |-> 0], [op |-> "start", r |-> 0] }
    \cup { [op |-> "mem_ready", r |-> v] : v \in 0..1 }
    \cup { [op |-> o, r |-> v] : o \in {"length", "offset"}, v \in 0..MaxParam }

\* self.start.re
start_re == host.op = "start"

\* self.mem_ready.re & self.mem_ready.r
mem_ready_pulse == host.op = "mem_ready" /\ host.r = 1

\* ------------------------------------------------------------ mem (buffered SyncFIFO)
\* mem.level: words in the storage plus the word in the output register
Level == Len(mem_fifo) + (IF mem_readable THEN 1 ELSE 0)

\* mem.sink.ready: the storage is not full
Writable == Len(mem_fifo) # Depth

\* mem.source.valid, driving mem_valid.status
mem_valid == mem_readable

\* the buffer's words, oldest first
Contents == (IF mem_readable THEN << mem_dout >> ELSE << >>) \o mem_fifo

\* ------------------------------------------------------------ fsm outputs
\* exit condition of RUN: the buffer refuses a write, or the level reached length
RunExit == ~Writable \/ Level >= length

\* (mutant) the drain threshold is the offset latched by the start pulse
WaitDrainLatched == Level >= cap_offset

\* drain condition of WAIT
WaitDrain == Level >= offset

\* (mutant) the readback handshake is honoured in WAIT as well
MemSourceReadyHostInWait ==
    CASE state = "IDLE" -> mem_ready_pulse
      [] state = "WAIT" -> WaitDrain \/ mem_ready_pulse
      [] state = "RUN"  -> RunExit

\* mem.source.ready, driven per state
MemSourceReady ==
    CASE state = "IDLE" -> mem_ready_pulse
      [] state = "WAIT" -> WaitDrain
      [] state = "RUN"  -> RunExit

\* (mutant) the sink is connected to mem.sink in WAIT only
MemSinkValidInWaitOnly == state = "WAIT" /\ sink_valid

\* (mutant) the sink is connected to mem.sink in IDLE as well
MemSinkValidInIdle == sink_valid

\* (mutant) the sink is cut off from mem.sink on the tick RUN is left
MemSinkValidNotOnExit == state # "IDLE" /\ sink_valid /\ ~(state = "RUN" /\ RunExit)

\* mem.sink.valid: the sink is connected to mem.sink in WAIT and RUN only
MemSinkValid == state # "IDLE" /\ sink_valid

\* self.sink.ready
SinkReady == IF state = "IDLE" THEN TRUE ELSE Writable

\* (mutant) the trigger condition looks at accepted samples only
WaitHitAccepted == sink_valid /\ sink_hit # 0 /\ Writable

\* the trigger condition of WAIT
WaitHit == sink_valid /\ sink_hit # 0

\* a sample is accepted from the upstream on this tick
Accepted == sink_valid /\ SinkReady

\* a word is written into the storage on this tick
DoWrite == MemSinkValid /\ Writable

\* a word leaves the buffer on this tick
DoPop == mem_readable /\ MemSourceReady

\* the inner FIFO hands its oldest word to the output register on this tick
FifoRe == mem_fifo # << >> /\ (~mem_readable \/ MemSourceReady)

\* self.idle.status
idle == IF state = "IDLE" THEN 1 ELSE 0

\* self.wait.status
wait == IF state = "WAIT" THEN 1 ELSE 0

\* (mutant) the run flag is driven in WAIT as well
run_in_wait == IF state \in {"WAIT", "RUN"} THEN 1 ELSE 0

\* self.run.status
run == IF state = "RUN" THEN 1 ELSE 0

\* ------------------------------------------------------------ one tick
\* mem's registers after the tick
MemStep ==
    /\ mem_fifo' = (IF FifoRe THEN Tail(mem_fifo) ELSE mem_fifo)
                   \o (IF DoWrite THEN << sink_data >> ELSE << >>)
    /\ mem_readable' = IF FifoRe THEN TRUE
                       ELSE IF MemSourceReady THEN FALSE
                       ELSE mem_readable
    /\ mem_dout' = IF FifoRe THEN Head(mem_fifo) ELSE mem_dout

\* the CSRStorage registers after the tick
CsrStep ==
    /\ length' = IF host.op = "length" THEN host.r ELSE length
    /\ offset' = IF host.op = "offset" THEN host.r ELSE offset

\* what the upstream and the host present on the next tick: a sample that was
\* not accepted stays presented; otherwise the upstream presents the next
\* sample or nothing
InputStep ==
    /\ host' \in HostOps
    /\ IF sink_valid /\ ~SinkReady
       THEN UNCHANGED << sink_valid, sink_data, sink_hit, nseq >>
       ELSE \/ /\ nseq < MaxSamples
               /\ nseq' = nseq + 1
               /\ sink_valid' = TRUE
               /\ sink_data' = nseq + 1
               /\ sink_hit' \in 0..1
            \/ /\ sink_valid' = FALSE
               /\ sink_data' = 0
               /\ sink_hit' = 0
               /\ UNCHANGED nseq

\* (mutant) a start pulse re-arms the controller from any state
NextStateStartAnywhere ==
    IF start_re THEN "WAIT"
    ELSE CASE state = "IDLE" -> "IDLE"
           [] state = "WAIT" -> IF WaitHit THEN "RUN" ELSE "WAIT"
           [] state = "RUN"  -> IF RunExit THEN "IDLE" ELSE "RUN"

\* the controller's next state (NextState(...) of the active fsm.act)
NextState ==
    CASE state = "IDLE" -> IF start_re THEN "WAIT" ELSE "IDLE"
      [] state = "WAIT" -> IF WaitHit THEN "RUN" ELSE "WAIT"
      [] state = "RUN"  -> IF RunExit THEN "IDLE" ELSE "RUN"

\* one sys tick with the controller in state st
Tick(st) ==
    /\ state = st
    /\ UNCHANGED << subvars, trigvars, pipevars >>
    /\ state' = NextState
    /\ MemStep
    /\ CsrStep
    /\ InputStep

\* fsm.act("IDLE", ...)
IDLE == Tick("IDLE") /\ UNCHANGED << cap_length, cap_offset, hit_data, wait_acc, cfg_written, done_level >>

\* fsm.act("WAIT", ...)
WAIT == Tick("WAIT") /\ UNCHANGED << cap_length, cap_offset, hit_data, wait_acc, cfg_written, done_level >>

\* fsm.act("RUN", ...)
RUN == Tick("RUN") /\ UNCHANGED << cap_length, cap_offset, hit_data, wait_acc, cfg_written, done_level >>

\* the capture controller after reset
StoInit ==
    /\ state = "IDLE"
    /\ length = 0
    /\ offset = 0
    /\ mem_fifo = << >>
    /\ mem_readable = FALSE
    /\ mem_dout = 0
    /\ sink_valid = FALSE
    /\ sink_data = 0
    /\ sink_hit = 0
    /\ host \in HostOps
    /\ nseq = 0
    /\ cap_length = 0
    /\ cap_offset = 0
    /\ hit_data = 0
    /\ wait_acc = 0
    /\ cfg_written = FALSE
    /\ done_level = -1

\* the Sub-Sampler after reset, nothing presented yet
SubRegsInit ==
    /\ counter = 0
    /\ ss_valid = FALSE
    /\ ss_data = 0
    /\ ss_ready = FALSE
    /\ ss_nseq = 0
    /\ emitted = << >>

\* ------------------------------------------------------------ FrontendTrigger
\* width of the sample data (constructor argument dw)
TrigDw == 1
\* largest value the host writes to the value and mask registers
TrigMaxCfg == 2
\* number of stages of a MultiReg
MultiRegDepth == 2

RECURSIVE BitAnd(_, _)
\* a & b on naturals
BitAnd(a, b) ==
    IF a = 0 \/ b = 0 THEN 0
    ELSE (a % 2) * (b % 2) + 2 * BitAnd(a \div 2, b \div 2)

\* width of the value and mask registers: len(self.sink.payload.raw_bits()),
\* the data field and the one-bit hit field
TrigCsrWidth == TrigDw + 1

\* the values the host writes to self.value and self.mask
TrigCfgs == { v \in 0..TrigMaxCfg : v < 2^TrigCsrWidth }

\* value: the last stage of MultiReg(self.value.storage, value, cd)
tr_value_sync == tr_value_regs[MultiRegDepth]

\* mask: the last stage of MultiReg(self.mask.storage, mask, cd)
tr_mask_sync == tr_mask_regs[MultiRegDepth]

\* self.source.valid (self.sink.connect(self.source))
tr_source_valid == tr_valid

\* self.source.data (self.sink.connect(self.source))
tr_source_data == tr_data

\* self.sink.ready (self.sink.connect(self.source))
tr_sink_ready == tr_ready

\* (mutant) the hit flag of the sink is passed on, the comparison is masked by it
tr_source_hit_sink == tr_hit

\* self.source.hit: the later assignment replaces the one of connect
tr_source_hit == IF BitAnd(tr_data, tr_mask_sync) = tr_value_sync THEN 1 ELSE 0

\* a register chain after a sampling tick: the first stage takes the input,
\* every other stage its predecessor
Shift(regs, in) == [i \in 1..Len(regs) |-> IF i = 1 THEN in ELSE regs[i - 1]]

\* what the upstream and the downstream present on the next sampling tick
TrigInputStep ==
    /\ tr_ready' \in BOOLEAN
    /\ tr_hit' \in 0..1
    /\ IF tr_valid /\ ~tr_sink_ready
       THEN UNCHANGED << tr_valid, tr_data >>
       ELSE \/ tr_valid' = TRUE /\ tr_data' \in 0..(2^TrigDw - 1)
            \/ tr_valid' = FALSE /\ tr_data' = 0

\* one sampling tick of the Trigger Matcher
TrigTick ==
    /\ tr_value_regs' = Shift(tr_value_regs, tr_value)
    /\ tr_mask_regs' = Shift(tr_mask_regs, tr_mask)
    /\ tr_value_held' = Shift(tr_value_held, tr_value)
    /\ tr_mask_held' = Shift(tr_mask_held, tr_mask)
    /\ TrigInputStep
    /\ UNCHANGED << tr_value, tr_mask >>
    /\ UNCHANGED << stovars, subvars, pipevars >>

\* the host writes self.value (a tick of the control domain)
TrigWriteValue ==
    /\ tr_value' \in TrigCfgs \ { tr_value }
    /\ UNCHANGED << tr_mask, tr_value_regs, tr_mask_regs, tr_valid, tr_data,
                    tr_hit, tr_ready, tr_value_held, tr_mask_held >>
    /\ UNCHANGED << stovars, subvars, pipevars >>

\* the host writes self.mask (a tick of the control domain)
TrigWriteMask ==
    /\ tr_mask' \in TrigCfgs \ { tr_mask }
    /\ UNCHANGED << tr_value, tr_value_regs, tr_mask_regs, tr_valid, tr_data,
                    tr_hit, tr_ready, tr_value_held, tr_mask_held >>
    /\ UNCHANGED << stovars, subvars, pipevars >>

\* the Trigger Matcher after reset, nothing presented yet
TrigRegsInit ==
    /\ tr_value = 0
    /\ tr_mask = 0
    /\ tr_value_regs = [i \in 1..MultiRegDepth |-> 0]
    /\ tr_mask_regs = [i \in 1..MultiRegDepth |-> 0]
    /\ tr_valid = FALSE
    /\ tr_data = 0
    /\ tr_hit = 0
    /\ tr_ready = FALSE
    /\ tr_value_held = [i \in 1..MultiRegDepth |-> 0]
    /\ tr_mask_held = [i \in 1..MultiRegDepth |-> 0]

\* the pipeline after reset, nothing presented yet
PipeRegsInit ==
    /\ fe_valid = FALSE
    /\ fe_data = 0
    /\ fe_nseq = 0
    /\ buf_valid = FALSE
    /\ buf_data = 0
    /\ af_mem = << >>
    /\ af_produce = 0
    /\ af_consume = 0
    /\ af_consume_w = [i \in 1..MultiRegDepth |-> 0]
    /\ af_produce_r = [i \in 1..MultiRegDepth |-> 0]
    /\ fe_ready = FALSE
    /\ fe_accepted = << >>
    /\ fe_delivered = << >>

Init ==
    /\ StoInit /\ SubRegsInit /\ TrigRegsInit /\ PipeRegsInit
    /\ value_storage = 0 /\ value_meta = 0 /\ value = 0

Next == IDLE \/ WAIT \/ RUN

Spec == Init /\ [][Next]_vars

\* ------------------------------------------------------------ histories
\* The history variables are observers: no definition above reads them. Each
\* specification below runs the same ticks as Spec and records one history.

\* the capture parameters as they were when the capture started: in IDLE
\* they follow the registers, a start pulse freezes them until the capture ends
CfgHist ==
    /\ cap_length' = IF state' = "IDLE" THEN length'
                     ELSE IF state = "IDLE" THEN length
                     ELSE cap_length
    /\ cap_offset' = IF state' = "IDLE" THEN offset'
                     ELSE IF state = "IDLE" THEN offset
                     ELSE cap_offset

CfgIDLE == Tick("IDLE") /\ CfgHist /\ UNCHANGED << hit_data, wait_acc, cfg_written, done_level >>
CfgWAIT == Tick("WAIT") /\ CfgHist /\ UNCHANGED << hit_data, wait_acc, cfg_written, done_level >>
CfgRUN == Tick("RUN") /\ CfgHist /\ UNCHANGED << hit_data, wait_acc, cfg_written, done_level >>

NextCfg == CfgIDLE \/ CfgWAIT \/ CfgRUN

SpecCfg == Init /\ [][NextCfg]_vars

\* whether the host wrote length or offset since the last start pulse
WrittenHist ==
    cfg_written' = IF state = "IDLE" /\ start_re THEN FALSE
                   ELSE cfg_written \/ host.op \in {"length", "offset"}

\* the triggering sample and the number of samples accepted in WAIT before it
TrigHist ==
    /\ hit_data' = IF state = "WAIT" /\ WaitHit THEN sink_data
                   ELSE IF state' = "RUN" THEN hit_data
                   ELSE 0
    /\ wait_acc' = IF state' = "IDLE" \/ state = "IDLE" THEN 0
                   ELSE IF state = "WAIT" /\ Accepted /\ ~WaitHit
                   THEN (IF wait_acc < MaxParam THEN wait_acc + 1 ELSE MaxParam)
                   ELSE wait_acc
    /\ WrittenHist

TrigIDLE == Tick("IDLE") /\ TrigHist /\ UNCHANGED << cap_length, cap_offset, done_level >>
TrigWAIT == Tick("WAIT") /\ TrigHist /\ UNCHANGED << cap_length, cap_offset, done_level >>
TrigRUN == Tick("RUN") /\ TrigHist /\ UNCHANGED << cap_length, cap_offset, done_level >>

NextTrig == TrigIDLE \/ TrigWAIT \/ TrigRUN

SpecTrig == Init /\ [][NextTrig]_vars

\* the window size of the last capture that completed under the parameters the
\* registers hold now: a write to length or offset forgets it
RearmHist ==
    /\ done_level' = IF host.op \in {"length", "offset"} THEN -1
                     ELSE IF state = "RUN" /\ RunExit
                     THEN (IF cfg_written THEN -1 ELSE Level')
                     ELSE done_level
    /\ WrittenHist

RearmIDLE == Tick("IDLE") /\ RearmHist /\ UNCHANGED << cap_length, cap_offset, hit_data, wait_acc >>
RearmWAIT == Tick("WAIT") /\ RearmHist /\ UNCHANGED << cap_length, cap_offset, hit_data, wait_acc >>
RearmRUN == Tick("RUN") /\ RearmHist /\ UNCHANGED << cap_length, cap_offset, hit_data, wait_acc >>

NextRearm == RearmIDLE \/ RearmWAIT \/ RearmRUN

SpecRearm == Init /\ [][NextRearm]_vars

\* ------------------------------------------------------------ endless input
\* The upstream of SpecLive never runs out of samples; they are not told
\* apart (every sample carries the data 1 and is not counted).  The clock of
\* the controller never stops.

\* as InputStep, with a sample always at hand
LiveInputStep ==
    /\ host' \in HostOps
    /\ IF sink_valid /\ ~SinkReady
       THEN UNCHANGED << sink_valid, sink_data, sink_hit >>
       ELSE \/ /\ sink_valid' = TRUE
               /\ sink_data' = 1
               /\ sink_hit' \in 0..1
            \/ /\ sink_valid' = FALSE
               /\ sink_data' = 0
               /\ sink_hit' = 0
    /\ UNCHANGED nseq

\* one sys tick with the controller in state st
LiveTick(st) ==
    /\ state = st
    /\ UNCHANGED << subvars, trigvars, pipevars >>
    /\ state' = NextState
    /\ MemStep
    /\ CsrStep
    /\ LiveInputStep

LiveIDLE == LiveTick("IDLE") /\ UNCHANGED << cap_length, cap_offset, hit_data, wait_acc, cfg_written, done_level >>
LiveWAIT == LiveTick("WAIT") /\ UNCHANGED << cap_length, cap_offset, hit_data, wait_acc, cfg_written, done_level >>
LiveRUN == LiveTick("RUN") /\ UNCHANGED << cap_length, cap_offset, hit_data, wait_acc, cfg_written, done_level >>

NextLive == LiveIDLE \/ LiveWAIT \/ LiveRUN

SpecLive == Init /\ [][NextLive]_vars /\ WF_vars(NextLive)

\* ------------------------------------------------------------ FrontendSubSampler
\* largest decimation count tried
MaxCount == 3
\* number of samples presented to the Sub-Sampler in one behaviour
SubMaxSamples == 6
\* width of the counter signal
CounterWidth == 16

\* done = (counter == value)
done == counter = value

\* self.source.valid = self.sink.valid & done
ss_source_valid == ss_valid /\ done

\* (mutant) the sink is always ready
ss_sink_ready_always == TRUE

\* self.sink.ready: the sink is connected to the source, valid left out
ss_sink_ready == ss_ready

\* a sample is accepted from the upstream on this tick
SubAccepted == ss_valid /\ ss_sink_ready

\* a sample is handed downstream on this tick
SubEmits == ss_source_valid /\ ss_ready

\* what the upstream and the downstream present on the next tick: a sample
\* that was not accepted stays presented; the downstream is ready or not
SubInputStep ==
    /\ ss_ready' \in BOOLEAN
    /\ IF ss_valid /\ ~ss_sink_ready
       THEN UNCHANGED << ss_valid, ss_data, ss_nseq >>
       ELSE \/ /\ ss_nseq < SubMaxSamples
               /\ ss_nseq' = ss_nseq + 1
               /\ ss_valid' = TRUE
               /\ ss_data' = ss_nseq + 1
            \/ /\ ss_valid' = FALSE
               /\ ss_data' = 0
               /\ UNCHANGED ss_nseq

\* what every sampling tick does besides the counter
SubStep ==
    /\ emitted' = IF SubEmits THEN Append(emitted, ss_data) ELSE emitted
    /\ SubInputStep
    /\ UNCHANGED << value_storage, value_meta, value >>
    /\ UNCHANGED << stovars, trigvars, pipevars >>

\* If(self.source.ready, If(done, counter.eq(0)))
SubReset ==
    /\ ss_ready /\ done
    /\ counter' = 0
    /\ SubStep

\* If(self.source.ready, ... .Elif(self.sink.valid, counter.eq(counter + 1)))
SubCount ==
    /\ ss_ready /\ ~done /\ ss_valid
    /\ counter' = (counter + 1) % (2^CounterWidth)
    /\ SubStep

\* no branch of the sync statement is taken
SubHold ==
    /\ ~ss_ready \/ (~done /\ ~ss_valid)
    /\ UNCHANGED counter
    /\ SubStep

\* the registers after reset, with the decimation count the host configured
\* before sampling began; the count is then held constant
SubInit ==
    /\ StoInit /\ SubRegsInit /\ TrigRegsInit /\ PipeRegsInit
    /\ value \in 0..MaxCount /\ value_meta = value /\ value_storage = value

SubNext == SubReset \/ SubCount \/ SubHold

SubSpec == SubInit /\ [][SubNext]_vars

\* ------------------------------------------------------------ count rewritten
\* SubCfgSpec: the Sub-Sampler with a host that rewrites the decimation count
\* while samples flow.

\* what every sampling tick does besides the counter: as SubStep, with the
\* MultiReg carrying the count register into the sampling domain
SubCfgStep ==
    /\ emitted' = IF SubEmits THEN Append(emitted, ss_data) ELSE emitted
    /\ SubInputStep
    /\ value_meta' = value_storage
    /\ value' = value_meta
    /\ UNCHANGED value_storage
    /\ UNCHANGED << stovars, trigvars, pipevars >>

\* If(self.source.ready, If(done, counter.eq(0)))
SubCfgReset ==
    /\ ss_ready /\ done
    /\ counter' = 0
    /\ SubCfgStep

\* If(self.source.ready, ... .Elif(self.sink.valid, counter.eq(counter + 1)))
SubCfgCount ==
    /\ ss_ready /\ ~done /\ ss_valid
    /\ counter' = (counter + 1) % (2^CounterWidth)
    /\ SubCfgStep

\* no branch of the sync statement is taken
SubCfgHold ==
    /\ ~ss_ready \/ (~done /\ ~ss_valid)
    /\ UNCHANGED counter
    /\ SubCfgStep

\* the host writes self.value (a tick of the control domain)
SubWriteValue ==
    /\ value_storage' \in (0..MaxCount) \ { value_storage }
    /\ UNCHANGED << value_meta, value, counter, ss_valid, ss_data, ss_ready,
                    ss_nseq, emitted >>
    /\ UNCHANGED << stovars, trigvars, pipevars >>

\* after reset, with the host idle on the capture controller's registers
SubCfgInit == Init /\ host.op = "none"

SubCfgNext == SubCfgReset \/ SubCfgCount \/ SubCfgHold \/ SubWriteValue

SubCfgSpec == SubCfgInit /\ [][SubCfgNext]_vars

\* ------------------------------------------------------------ AnalyzerFrontend
\* number of samples the producer presents to the pipeline in one behaviour
PipeMaxSamples == 11
\* depth of the domain-crossing fifo
AfDepth == 8

\* fifo.sink.ready: the write pointer is less than a full turn ahead of the
\* read pointer as the write domain sees it
af_writable == (af_produce - af_consume_w[MultiRegDepth]) % (2 * AfDepth) # AfDepth

\* fifo.source.valid: the write pointer as the read domain sees it is ahead of
\* the read pointer
af_readable == af_produce_r[MultiRegDepth] # af_consume

\* subsampler.source.valid, its sink fed by the buffer through the trigger
pl_sub_source_valid == buf_valid /\ done

\* (mutant) the Sub-Sampler takes a sample whether or not downstream is ready
pl_sub_sink_ready_always == TRUE

\* subsampler.sink.ready: the ready of the fifo, handed through the converter
pl_sub_sink_ready == af_writable

\* buffer.sink.ready, which is self.sink.ready: the register is free or is
\* being emptied on this tick
pl_sink_ready == ~buf_valid \/ pl_sub_sink_ready

\* what the producer presents on the next sampling tick: it honours ready
PipeInputStep ==
    IF fe_valid /\ ~pl_sink_ready
    THEN UNCHANGED << fe_valid, fe_data, fe_nseq >>
    ELSE \/ /\ fe_nseq < PipeMaxSamples
            /\ fe_nseq' = fe_nseq + 1
            /\ fe_valid' = TRUE
            /\ fe_data' = fe_nseq + 1
         \/ /\ fe_valid' = FALSE
            /\ fe_data' = 0
            /\ UNCHANGED fe_nseq

\* one tick of the sampling domain: buffer, trigger, subsampler, converter and
\* the write side of the fifo
PipeCdTick ==
    /\ buf_valid' = IF pl_sink_ready THEN fe_valid ELSE buf_valid
    /\ buf_data' = IF pl_sink_ready THEN fe_data ELSE buf_data
    /\ counter' = IF pl_sub_sink_ready
                  THEN (IF done THEN 0
                        ELSE IF buf_valid THEN (counter + 1) % (2^CounterWidth)
                        ELSE counter)
                  ELSE counter
    /\ IF pl_sub_source_valid /\ af_writable
       THEN /\ af_mem' = Append(af_mem, buf_data)
            /\ af_produce' = (af_produce + 1) % (2 * AfDepth)
       ELSE UNCHANGED << af_mem, af_produce >>
    /\ af_consume_w' = Shift(af_consume_w, af_consume)
    /\ fe_accepted' = IF fe_valid /\ pl_sink_ready
                      THEN Append(fe_accepted, fe_data) ELSE fe_accepted
    /\ PipeInputStep
    /\ UNCHANGED << af_consume, af_produce_r, fe_ready, fe_delivered >>
    /\ UNCHANGED << value_storage, value_meta, value,
                    ss_valid, ss_data, ss_ready, ss_nseq, emitted >>
    /\ UNCHANGED << stovars, trigvars >>

\* one tick of the sys domain: the read side of the fifo and the consumer
PipeSysTick ==
    /\ IF af_readable /\ fe_ready
       THEN /\ af_mem' = Tail(af_mem)
            /\ af_consume' = (af_consume + 1) % (2 * AfDepth)
            /\ fe_delivered' = Append(fe_delivered, Head(af_mem))
       ELSE UNCHANGED << af_mem, af_consume, fe_delivered >>
    /\ af_produce_r' = Shift(af_produce_r, af_produce)
    /\ fe_ready' \in BOOLEAN
    /\ UNCHANGED << fe_valid, fe_data, fe_nseq, buf_valid, buf_data, af_produce,
                    af_consume_w, fe_accepted >>
    /\ UNCHANGED << stovars, subvars, trigvars >>

\* ------------------------------------------------------------ observations
\* the oldest word of the buffer leaves it on this step (samples are numbered
\* in arrival order, so a word never returns once it has left)
Popped == Contents # << >> /\ (Contents' = << >> \/ Head(Contents') # Head(Contents))

\* the last sample the controller accepted
LastAccepted == IF sink_valid THEN nseq - 1 ELSE nseq

\* the k most recently accepted samples, oldest first
Recent(k) == [i \in 1..k |-> LastAccepted - k + i]

\* ------------------------------------------------------------ claims
\* C1: when a capture completes (the step RUN -> IDLE; the state it leads to
\* is the completed capture before any host readback) with offset <= length
\* and at least offset samples accepted in WAIT before the trigger, the
\* trigger-hit sample sits at index offset of the buffer, counted from 0 at
\* the oldest retained sample.  Stated for captures whose parameters the host
\* did not rewrite after the start pulse.  Checked under SpecTrig.
C1_HitAtOffset ==
    [][ (/\ state = "RUN" /\ state' = "IDLE"
         /\ ~cfg_written /\ host.op \notin {"length", "offset"}
         /\ offset <= length
         /\ wait_acc >= offset)
        => (/\ Len(Contents') > offset
            /\ Contents'[offset + 1] = hit_data) ]_vars

\* C2: from the tick the controller enters RUN until the next start (the
\* states RUN and IDLE) the fill level is at most length.  Stated for
\* offset < length and for parameters not rewritten since the start pulse.
\* Checked under SpecTrig.
C2_LevelAtMostLength ==
    (state \in {"RUN", "IDLE"} /\ ~cfg_written /\ offset < length)
        => Level <= length

\* C3: while the controller is in WAIT (no hit sample has arrived) the fill
\* level never exceeds offset, and once offset samples were accepted the
\* buffer holds exactly the offset most recently accepted samples.  Stated for
\* 1 <= offset < length and parameters not rewritten since the start pulse.
\* Checked under SpecTrig.
C3_SlidingWindow ==
    (state = "WAIT" /\ ~cfg_written /\ 1 <= offset /\ offset < length)
        => (/\ Level <= offset
            /\ wait_acc >= offset => Contents = Recent(offset))

\* C4: once the fill level has reached offset during WAIT it does not drop
\* below offset on a later tick of the same WAIT phase, whether or not an
\* input sample is valid on that tick (offset not rewritten).  Checked under
\* SpecTrig.
C4_NeverBelowOffset ==
    [][ (/\ state = "WAIT" /\ state' = "WAIT"
         /\ ~cfg_written /\ host.op \notin {"length", "offset"}
         /\ Level >= offset)
        => Level' >= offset ]_vars

C6_ThresholdsLatchedAtStart ==
    [][ /\ (state = "WAIT" /\ mem_valid) => (Popped <=> Level >= cap_offset)
        /\ state = "RUN" => (state' = "IDLE" <=> (~Writable \/ Level >= cap_length))
      ]_vars

\* C6 (amended): the thresholds are the contents of the offset and length
\* registers on each tick: in WAIT a word is drained exactly when the fill
\* level is at least the offset register as it is on that tick, and RUN is
\* left exactly when the buffer refuses a write or the level is at least the
\* length register as it is on that tick, so a host write during WAIT or RUN
\* governs the same capture from the next tick on.  Checked under SpecCfg.
C6_ThresholdsFollowRegisters ==
    [][ /\ (state = "WAIT" /\ mem_valid) => (Popped <=> Level >= offset)
        /\ state = "RUN" => (state' = "IDLE" <=> (~Writable \/ Level >= length))
      ]_vars

\* C6 witness: a WAIT tick on which the rewritten offset register drains a
\* word that the offset of the start pulse would have kept
C6_Witness ==
    /\ state = "WAIT" /\ mem_valid
    /\ offset # cap_offset
    /\ Level >= offset /\ Level < cap_offset

\* C7: a capture that completes after a re-arm, with length and offset not
\* written since before the previous capture started, arrives in IDLE with the
\* fill level of the previous completed capture, whatever the host read back
\* in between.  Stated for offset < length <= depth.  Checked under SpecRearm.
C7_SameWindowSize ==
    [][ (/\ state = "RUN" /\ state' = "IDLE"
         /\ ~cfg_written /\ host.op \notin {"length", "offset"}
         /\ offset < length /\ length <= Depth
         /\ done_level # -1)
        => Level' = done_level ]_vars

\* C8: on every tick the controller spends in IDLE without a mem_ready pulse,
\* the presented sample is accepted and not stored: the buffer's contents and
\* fill level are unchanged, and mem_valid stays set once it is set (and is
\* set after the tick if the buffer is non-empty).  Checked under Spec.
C8_IdleHoldsBuffer ==
    [][ (state = "IDLE" /\ ~(host.op = "mem_ready" /\ host.r = 1))
        => (/\ SinkReady
            /\ Contents' = Contents
            /\ Level' = Level
            /\ mem_valid => mem_valid'
            /\ Level > 0 => mem_valid') ]_vars

\* C8 witness: an IDLE tick without a pulse, with a non-empty buffer and a
\* sample presented
C8_Witness ==
    /\ state = "IDLE" /\ host.op # "mem_ready"
    /\ sink_valid /\ Level >= 2 /\ mem_valid

\* C9 (as claimed): in every controller state, a mem_ready pulse with
\* mem_valid set pops exactly one sample, and no sample leaves the buffer on
\* a tick without such a pulse.  Checked under Spec.
C9_OnlyHostPops ==
    [][ /\ (mem_valid /\ host.op = "mem_ready" /\ host.r = 1) => Popped
        /\ Popped => (mem_valid /\ host.op = "mem_ready" /\ host.r = 1) ]_vars

\* C9 (amended): the mem_ready pulse is looked at in IDLE only.  In IDLE a
\* word leaves the buffer exactly on a tick with mem_valid set and a
\* mem_ready write of 1, and then exactly the oldest word leaves.  In WAIT and
\* RUN the pulse has no effect: the oldest word leaves on the ticks with
\* mem_valid set on which the level is at least offset (WAIT), respectively
\* on which the exit condition holds (RUN), pulse or not.  Checked under Spec.
C9_HostPopsInIdleOnly ==
    [][ /\ state = "IDLE" => (Popped <=> (mem_valid /\ host.op = "mem_ready" /\ host.r = 1))
        /\ (state = "IDLE" /\ Popped) => Contents' = Tail(Contents)
        /\ state = "WAIT" => (Popped <=> (mem_valid /\ Level >= offset))
        /\ state = "RUN" => (Popped <=> (mem_valid /\ (~Writable \/ Level >= length)))
      ]_vars

\* C9 witness: a mem_ready pulse with mem_valid set during WAIT, on a tick on
\* which the level is below offset, so that nothing is popped
C9_Witness ==
    /\ state = "WAIT" /\ mem_valid /\ host.op = "mem_ready" /\ host.r = 1
    /\ Level < offset

\* C10: with the decimation count held at k, the samples handed downstream
\* are, in order, exactly the last one of every k+1 consecutive accepted
\* samples (the accepted samples number k+1, 2(k+1), ... counting from 1),
\* whatever the gaps in input-valid and the stalls of downstream-ready.
\* Checked under SubSpec.
C10_OneOfEveryKPlusOne ==
    LET acc == IF ss_valid THEN ss_nseq - 1 ELSE ss_nseq
    IN  emitted = [i \in 1..(acc \div (value + 1)) |-> i * (value + 1)]

\* ------------------------------------------------------------ Trigger Matcher
TrigNext == TrigTick \/ TrigWriteValue \/ TrigWriteMask

TriggerSpec == Init /\ [][TrigNext]_vars

\* C11: on every sampling tick the Trigger Matcher presents downstream the
\* sample it is presented with: valid and data are the sink's, the sink's
\* ready is the source's; the hit flag it attaches is 1 exactly when
\* (data & mask) == value for the contents the mask and value registers had
\* MultiRegDepth sampling ticks earlier, whatever the hit flag of the sink.
\* Checked under TriggerSpec.
C11_HitOfSynchronizedPattern ==
    /\ tr_source_valid = tr_valid
    /\ tr_source_data = tr_data
    /\ tr_sink_ready = tr_ready
    /\ tr_source_hit =
         (IF BitAnd(tr_data, tr_mask_held[MultiRegDepth]) = tr_value_held[MultiRegDepth]
          THEN 1 ELSE 0)

\* C11 witness: a sample that matches the pattern the registers hold now but
\* not the one they held MultiRegDepth ticks earlier, presented with the
\* sink's hit flag set
C11_Witness ==
    /\ tr_valid /\ tr_hit = 1
    /\ BitAnd(tr_data, tr_mask) = tr_value
    /\ BitAnd(tr_data, tr_mask_held[MultiRegDepth]) # tr_value_held[MultiRegDepth]
    /\ tr_mask_held[1] # tr_mask_held[MultiRegDepth]

\* ------------------------------------------------------------ pipeline
PipeNext == PipeCdTick \/ PipeSysTick

PipeSpec == Init /\ [][PipeNext]_vars

\* the samples inside the pipeline, oldest first
InFlight == af_mem \o (IF buf_valid THEN << buf_data >> ELSE << >>)

\* C12: with the decimation count at 0 since reset and a producer that holds a sample
\* until it is accepted, the samples taken by the Capture Controller at the
\* pipeline's output are, in order, the samples accepted at its input: at any
\* moment the accepted sequence is the delivered sequence followed by the
\* samples still inside the pipeline (nothing lost, duplicated or reordered),
\* under every interleaving of sampling ticks and sys ticks and every pattern
\* of consumer stalls.  Checked under PipeSpec.
C12_DeliveredIsAccepted ==
    /\ fe_accepted = fe_delivered \o InFlight
    /\ fe_accepted = [i \in 1..Len(fe_accepted) |-> i]

\* C12 witness: the fifo is full, the buffer holds a sample, the producer is
\* stalled with the next one, and samples have been delivered
C12_Witness ==
    /\ Len(af_mem) = AfDepth /\ ~af_writable
    /\ buf_valid /\ fe_valid
    /\ fe_delivered # << >>

\* ------------------------------------------------------------ controller states
\* C13: after reset the controller is in IDLE, and in every reachable state
\* exactly one of the status flags idle, wait, run is 1: the flag of the
\* state the controller is in.  Checked under Spec.
C13_OneHotStatus ==
    /\ state = "IDLE"
    /\ [](/\ idle + wait + run = 1
          /\ idle = 1 <=> state = "IDLE"
          /\ wait = 1 <=> state = "WAIT"
          /\ run = 1 <=> state = "RUN")

\* C13 witness: the controller in WAIT, with the wait flag as the only flag set
C13_Witness == state = "WAIT" /\ wait = 1 /\ idle = 0 /\ run = 0

\* C14: a tick in WAIT is followed by WAIT or RUN, and by RUN exactly when a
\* valid sample with a non-zero hit flag is presented on that tick, whether
\* or not the buffer accepts it; as long as no such sample is presented the
\* controller stays in WAIT, whatever the host does.  Checked under Spec.
C14_WaitLeavesOnHitOnly ==
    [][ state = "WAIT"
        => (/\ state' \in {"WAIT", "RUN"}
            /\ state' = "RUN" <=> (sink_valid /\ sink_hit # 0)) ]_vars

\* C14 witness: a WAIT tick on which a hit sample is presented while the
\* buffer refuses writes, with a start pulse from the host
C14_Witness ==
    /\ state = "WAIT" /\ sink_valid /\ sink_hit # 0
    /\ Len(mem_fifo) = Depth /\ host.op = "start"

\* C15: on every tick on which the controller takes the WAIT -> RUN
\* transition, the hit sample that causes it is accepted by the buffer and is
\* the buffer's newest word after the tick, also when the buffer is full on
\* that tick.  Stated for captures whose parameters the host did not rewrite
\* after the start pulse.  Checked under SpecTrig.
C15_HitSampleWritten ==
    [][ (/\ state = "WAIT" /\ state' = "RUN"
         /\ ~cfg_written /\ host.op \notin {"length", "offset"})
        => (/\ sink_valid /\ sink_hit # 0
            /\ Contents' # << >>
            /\ Contents'[Len(Contents')] = sink_data) ]_vars

\* the words of a sequence are consecutive samples of the stream
Consecutive(w) == \A i \in 1..(Len(w) - 1) : w[i + 1] = w[i] + 1

\* C16: in every state the buffer's words, oldest to newest, are consecutive
\* samples of the stream presented to the controller (no gap, no duplicate,
\* arrival order), also after a re-arm that found words of the previous
\* capture in the buffer.  Stated for offset < length <= depth and parameters
\* not rewritten since the start pulse.  Checked under SpecTrig.
C16_ContiguousRun ==
    (~cfg_written /\ offset < length /\ length <= Depth) => Consecutive(Contents)

\* C17: if valid input samples keep arriving, a controller in RUN eventually
\* is in IDLE, whatever length and offset hold and whatever the host does;
\* RUN is left only for IDLE and only on a tick on which the buffer refuses a
\* write or the fill level is at least length, so that without a valid
\* sample, at a fill level below length and with room in the buffer, the
\* controller stays in RUN.  Checked under SpecLive.
C17_RunEndsUnderArrival ==
    /\ ([]<>sink_valid) => [](state = "RUN" => <>(state = "IDLE"))
    /\ [][ state = "RUN"
           => (/\ state' \in {"RUN", "IDLE"}
               /\ state' = "IDLE" => (Len(mem_fifo) = Depth \/ Level >= length)
               /\ (~sink_valid /\ Level < length /\ Len(mem_fifo) # Depth)
                    => state' = "RUN") ]_vars

\* C17 witness: the controller in RUN, below length, with room in the buffer
\* and no sample presented
C17_Witness ==
    /\ state = "RUN" /\ ~sink_valid
    /\ Level < length /\ Len(mem_fifo) # Depth /\ Level >= 1

\* C18: IDLE is left only for WAIT, and exactly on a tick with a start pulse.
\* In WAIT and RUN neither a start pulse nor a mem_ready pulse has any effect:
\* whatever the host does on the tick, the next state and the buffer after the
\* tick are those that the presented sample, the fill level and the length
\* and offset registers alone determine (WAIT: RUN on a presented hit sample,
\* a word drained at a level of offset or more; RUN: IDLE and a word popped
\* when the buffer refuses a write or the level is length or more; the
\* presented sample written if the storage has room).  Checked under Spec.
C18_PulsesActInIdleOnly ==
    [][ LET full == Len(mem_fifo) = Depth
            pop == /\ mem_valid
                   /\ IF state = "WAIT" THEN Level >= offset ELSE full \/ Level >= length
        IN  /\ state = "IDLE"
               => (/\ state' \in {"IDLE", "WAIT"}
                   /\ state' = "WAIT" <=> host.op = "start")
            /\ state = "WAIT"
               => state' = (IF sink_valid /\ sink_hit # 0 THEN "RUN" ELSE "WAIT")
            /\ state = "RUN"
               => state' = (IF full \/ Level >= length THEN "IDLE" ELSE "RUN")
            /\ state \in {"WAIT", "RUN"}
               => Contents' = (IF pop THEN Tail(Contents) ELSE Contents)
                              \o (IF sink_valid /\ ~full THEN << sink_data >> ELSE << >>)
      ]_vars

\* C18 witness: a start pulse on a RUN tick that stays in RUN and pops nothing
C18_Witness ==
    /\ state = "RUN" /\ host.op = "start"
    /\ mem_valid /\ Level < length /\ Len(mem_fifo) # Depth

\* ------------------------------------------------------------ Sub-Sampler
\* C19: on every tick on which the downstream is not ready the counter keeps
\* its value, the sink's ready is low, nothing is handed downstream and a
\* presented sample stays presented; on a sampling tick on which the
\* downstream is ready and a sample is presented at counter == count, that
\* sample is handed downstream and leaves the sink, so that a sample waiting
\* at counter == count is taken once, on the first tick the downstream is
\* ready, and the samples handed downstream never repeat.  Checked under
\* SubCfgSpec.
C19_StallHoldsCounterAndSample ==
    /\ [][ ~ss_ready
           => (/\ counter' = counter
               /\ ~ss_sink_ready
               /\ emitted' = emitted
               /\ ss_valid => (ss_valid' /\ ss_data' = ss_data)) ]_vars
    /\ [][ (ss_ready /\ ss_valid /\ counter = value /\ value_storage' = value_storage)
           => (/\ emitted' = Append(emitted, ss_data)
               /\ ~(ss_valid' /\ ss_data' = ss_data)) ]_vars
    /\ [](\A i \in 1..(Len(emitted) - 1) : emitted[i] < emitted[i + 1])

\* C19 witness: a sample waits at counter == count, with a non-zero count,
\* while the downstream is not ready
C19_Witness ==
    /\ ~ss_ready /\ ss_valid /\ counter = value /\ value > 0
    /\ emitted # << >>

\* C20: whenever the synchronized decimation count is 0, the Sub-Sampler's
\* output-valid equals its input-valid, also right after the count came down
\* from a non-zero value with the counter at a non-zero value.  Checked under
\* SubCfgSpec.
C20_CountZeroPassesThrough ==
    value = 0 => (ss_source_valid <=> ss_valid)

====
